---- MODULE Spec2Model ----
(***************************************************************************)
(* Project search of crates/search/src/project_search.rs: the ProjectSearch *)
(* model (search generation, match ranges, excerpt container, in-flight     *)
(* task), the ProjectSearchView that validates the input fields and issues  *)
(* searches, the semantic indexing state, and ProjectSearchBar's handlers.  *)
(*                                                                          *)
(* Option<T> is modelled as a sequence of length 0 (None) or 1 (Some(x)).   *)
(* Text is a sequence of one-character strings.                             *)
(***************************************************************************)
EXTENDS Integers, Sequences, FiniteSets, TLC

\* ------------------------------------------------------------------ bounds

\* Number of searches that may be issued in one behaviour.
MaxSearches == 2
\* Largest number of match ranges one engine result holds.
MaxMatches == 2
\* Largest file count / remaining count the semantic index reports.
MaxFiles == 1
\* Longest pattern text given to load_glob_set in SpecGlob.
MaxLen == 4
\* Number of index_project requests that may be in flight at once.
MaxIndexTasks == 1
\* Largest number of matches navigated among in SpecSelect.
MaxSelectMatches == 4
\* Largest number of project search views the workspace holds.
MaxViews == 2

\* ------------------------------------------------------------- Option<T>

None == << >>
Some(x) == << x >>
IsSome(o) == Len(o) = 1
Unwrap(o) == o[1]

\* ------------------------------------------------ load_glob_set (pure part)

Chars == {"a", ",", " ", "["}

\* text.split(','): the segments between commas; the empty text has one
\* (empty) segment.
RECURSIVE SplitComma(_, _)
SplitComma(text, cur) ==
    IF text = << >> THEN << cur >>
    ELSE IF Head(text) = ","
         THEN << cur >> \o SplitComma(Tail(text), << >>)
         ELSE SplitComma(Tail(text), Append(cur, Head(text)))

RECURSIVE TrimStart(_)
TrimStart(s) ==
    IF s # << >> /\ Head(s) = " " THEN TrimStart(Tail(s)) ELSE s

RECURSIVE TrimEnd(_)
TrimEnd(s) ==
    IF s # << >> /\ s[Len(s)] = " " THEN TrimEnd(SubSeq(s, 1, Len(s) - 1)) ELSE s

\* str::trim
Trim(s) == TrimEnd(TrimStart(s))

\* Glob::new(glob_str): fails on a pattern with an unclosed character class,
\* the only malformed pattern the alphabet Chars can spell.
GlobNew(seg) ==
    IF \E i \in 1..Len(seg) : seg[i] = "["
    THEN [ok |-> FALSE, matcher |-> << >>]
    ELSE [ok |-> TRUE, matcher |-> seg]

\* .filter(|glob_str| !glob_str.is_empty())
KeepSegment(seg) == seg # << >>

\* Mutant of CollectGlobs: a segment that fails to compile is skipped and the
\* matchers of the others are returned.
RECURSIVE CollectGlobsPartial(_)
CollectGlobsPartial(segs) ==
    IF segs = << >> THEN [ok |-> TRUE, matchers |-> << >>]
    ELSE LET seg == Trim(Head(segs))
             rest == CollectGlobsPartial(Tail(segs)) IN
         IF ~KeepSegment(seg) \/ ~GlobNew(seg).ok THEN rest
         ELSE [ok |-> TRUE, matchers |-> << GlobNew(seg).matcher >> \o rest.matchers]

\* collect::<Result<Vec<_>>>(): the matchers in order, or the first error.
RECURSIVE CollectGlobs(_)
CollectGlobs(segs) ==
    IF segs = << >> THEN [ok |-> TRUE, matchers |-> << >>]
    ELSE LET seg == Trim(Head(segs)) IN
         IF ~KeepSegment(seg) THEN CollectGlobs(Tail(segs))
         ELSE LET g == GlobNew(seg) IN
              IF ~g.ok THEN [ok |-> FALSE, matchers |-> << >>]
              ELSE LET rest == CollectGlobs(Tail(segs)) IN
                   IF ~rest.ok THEN [ok |-> FALSE, matchers |-> << >>]
                   ELSE [ok |-> TRUE, matchers |-> << g.matcher >> \o rest.matchers]

load_glob_set(text) == CollectGlobs(SplitComma(text, << >>))

\* ------------------------------------------------------------ engine results

Paths == {1, 2}

\* A match range: the generation of the search that produced it, the path of
\* its document and its position within the document.
Match(g, p, i) == [gen |-> g, path |-> p, pos |-> i]

\* One entry of the text engine's result map: a document with n >= 1 ranges.
Groups == {[path |-> p, n |-> n] : p \in Paths, n \in 1..MaxMatches}

RECURSIVE TotalRanges(_)
TotalRanges(groups) ==
    IF groups = << >> THEN 0 ELSE Head(groups).n + TotalRanges(Tail(groups))

\* project.search(query): a map from documents to ranges, iterated in an
\* arbitrary order (into_iter().collect::<Vec<_>>()).
TextResults ==
    {r \in UNION {[1..k -> Groups] : k \in 0..Cardinality(Paths)} :
        /\ \A i, j \in 1..Len(r) : i # j => r[i].path # r[j].path
        /\ TotalRanges(r) <= MaxMatches}

\* semantic_index.search_project(...): results in rank order, here at most one
\* per document; each becomes the group (buffer, [start..start]).
SemanticResults ==
    {r \in UNION {[1..k -> Groups] : k \in 0..Cardinality(Paths)} :
        /\ \A i, j \in 1..Len(r) : i # j => r[i].path # r[j].path
        /\ \A i \in 1..Len(r) : r[i].n = 1
        /\ Len(r) <= MaxMatches}

\* matches.sort_by_key(path): a stable insertion sort on the path.
RECURSIVE InsertByPath(_, _)
InsertByPath(g, sorted) ==
    IF sorted = << >> THEN << g >>
    ELSE IF g.path < Head(sorted).path
         THEN << g >> \o sorted
         ELSE << Head(sorted) >> \o InsertByPath(g, Tail(sorted))

RECURSIVE SortByPath(_)
SortByPath(groups) ==
    IF groups = << >> THEN << >>
    ELSE InsertByPath(groups[Len(groups)], SortByPath(SubSeq(groups, 1, Len(groups) - 1)))

\* The ranges stream_excerpts_with_context_lines emits for the groups, in order.
RECURSIVE StreamOf(_, _)
StreamOf(groups, g) ==
    IF groups = << >> THEN << >>
    ELSE [i \in 1..Head(groups).n |-> Match(g, Head(groups).path, i)]
         \o StreamOf(Tail(groups), g)

\* --------------------------------------------------------------------- state

VARIABLES
    \* ProjectSearch
    search_id, active_query, match_ranges, excerpts, pending_search,
    \* the asynchronous search tasks that are alive
    tasks,
    \* ProjectSearchView
    semantic, search_options, panels_with_errors, active_match_index,
    view_search_id, current_mode, cursor,
    \* the text of the query, include and exclude editors
    query_text, include_text, exclude_text,
    \* SemanticIndex::global(cx) is Some / SemanticIndex::enabled(cx)
    semantic_enabled,
    \* index_project requests in flight (detached tasks)
    index_tasks,
    \* the handler or task step that ran last
    last_op,
    \* history: the ids of the tasks dropped before they had finished
    superseded,
    \* input and result of load_glob_set (SpecGlob)
    glob_text, glob_result,
    \* the other ProjectSearch once the model has been cloned (SpecClone)
    peer,
    \* history: direction and active match index at the call, for the last two
    \* select_match calls made in a row (latest first)
    nav_trace,
    \* the editor of the view that has the keyboard focus, and
    \* ProjectSearchView.query_editor_was_focused
    focus, query_editor_was_focused,
    \* the number of project search views among the workspace's items
    views,
    \* history: the indexing state that exists has suppressed a search request
    \* and no search has been issued since
    suppressed,
    \* history: the entry new_search_in_directory was last called with
    dir_entry

model_vars == << search_id, active_query, match_ranges, excerpts, pending_search, tasks >>
view_vars == << semantic, search_options, panels_with_errors, active_match_index,
               view_search_id, current_mode, cursor >>
text_vars == << query_text, include_text, exclude_text >>
glob_vars == << glob_text, glob_result >>
focus_vars == << focus, query_editor_was_focused >>
vars == << model_vars, view_vars, text_vars, semantic_enabled, index_tasks, last_op, superseded,
          glob_vars, peer, nav_trace, focus_vars, views, suppressed, dir_entry >>

\* The options toggle_search_option is called with. WHOLE_WORD is handled exactly
\* as CASE_SENSITIVE is (a flag handed to the query) and is never toggled here.
SearchOptionNames == {"REGEX", "CASE_SENSITIVE"}
QueryTexts == { << >>, << "(" >> }
GlobTexts == { << >>, << "a", ",", " ", "[" >> }

Init ==
    /\ search_id = 0
    /\ active_query = None
    /\ match_ranges = << >>
    /\ excerpts = << >>
    /\ pending_search = None
    /\ tasks = {}
    /\ semantic = None
    /\ search_options = {}
    /\ panels_with_errors = {}
    /\ active_match_index = None
    /\ view_search_id = 0
    /\ current_mode = "Text"
    /\ cursor = 0
    /\ query_text = << >>
    /\ include_text = << >>
    /\ exclude_text = << >>
    /\ semantic_enabled \in BOOLEAN
    /\ index_tasks = 0
    /\ last_op = "new"
    /\ superseded = {}
    /\ glob_text = << >>
    /\ glob_result = None
    /\ peer = None
    /\ nav_trace = << >>
    /\ focus = "query_editor"
    /\ query_editor_was_focused = TRUE
    /\ views = 1
    /\ suppressed = FALSE
    /\ dir_entry = None

\* ------------------------------------------------ ProjectSearchView observers

\* The buffer position of the i-th range (0-based) of match_ranges: the ranges
\* are anchors into the excerpt container, which holds them in the order they
\* were appended; position 0 is the start of the buffer. A range is taken as
\* one position (as the start..start ranges of semantic_search are), so a
\* cursor put on a range by selecting it is at MatchStart of that range.
MatchStart(i) == i + 1

\* The first index from i on whose range starts at or after cur, if any.
RECURSIVE FirstAtOrAfter(_, _, _)
FirstAtOrAfter(n, cur, i) ==
    IF i >= n THEN None
    ELSE IF MatchStart(i) >= cur THEN Some(i)
    ELSE FirstAtOrAfter(n, cur, i + 1)

\* editor::items::active_match_index(ranges, cursor, snapshot) for n ranges.
ActiveMatchIndex(n, cur) ==
    IF n = 0 THEN None
    ELSE LET found == FirstAtOrAfter(n, cur, 0) IN
         IF IsSome(found) THEN found ELSE Some(0)

\* ProjectSearchView::focus_query_editor
focus_query_editor ==
    /\ query_editor_was_focused' = TRUE
    /\ focus' = "query_editor"

\* ProjectSearchView::focus_results_editor
focus_results_editor ==
    /\ query_editor_was_focused' = FALSE
    /\ focus' = "results_editor"

\* Mutant of update_match_index: the index is computed for the position the
\* cursor had before the selection changed.
update_match_index_stale_cursor ==
    active_match_index' = ActiveMatchIndex(Len(match_ranges'), cursor)

\* ProjectSearchView::update_match_index, called by model_changed and for every
\* SelectionsChanged event of the results editor: the index is computed from
\* the model's ranges and the head of the newest selection.
update_match_index ==
    active_match_index' = ActiveMatchIndex(Len(match_ranges'), cursor')

\* Mutant of model_changed: the index is left alone when there are no matches.
model_changed_keeping_index ==
    IF match_ranges' = << >>
    THEN UNCHANGED << active_match_index, view_search_id, cursor, focus_vars >>
    ELSE LET is_new_search == search_id' # view_search_id IN
         /\ view_search_id' = search_id'
         /\ cursor' = IF is_new_search THEN MatchStart(0) ELSE cursor
         /\ update_match_index
         /\ IF is_new_search /\ focus = "query_editor"
            THEN focus_results_editor
            ELSE UNCHANGED focus_vars

\* Mutant of model_changed: the first match of a new search is not selected.
model_changed_without_selection ==
    IF match_ranges' = << >>
    THEN /\ active_match_index' = None
         /\ UNCHANGED << view_search_id, cursor, focus_vars >>
    ELSE LET is_new_search == search_id' # view_search_id IN
         /\ view_search_id' = search_id'
         /\ UNCHANGED cursor
         /\ update_match_index
         /\ IF is_new_search /\ focus = "query_editor"
            THEN focus_results_editor
            ELSE UNCHANGED focus_vars

\* Mutant of model_changed: the first match is selected for every change of
\* the model, not only for a new search.
model_changed_always_selecting ==
    IF match_ranges' = << >>
    THEN /\ active_match_index' = None
         /\ UNCHANGED << view_search_id, cursor, focus_vars >>
    ELSE LET is_new_search == search_id' # view_search_id IN
         /\ view_search_id' = search_id'
         /\ cursor' = MatchStart(0)
         /\ update_match_index
         /\ IF is_new_search /\ focus = "query_editor"
            THEN focus_results_editor
            ELSE UNCHANGED focus_vars

\* model_changed, run by cx.observe(&model) for every cx.notify() of the model;
\* the effects are flushed before the handler or task step returns control, so
\* the selection of the first match (a new search) has raised SelectionsChanged
\* and the index is the one computed last.
model_changed ==
    IF match_ranges' = << >>
    THEN /\ active_match_index' = None
         /\ UNCHANGED << view_search_id, cursor, focus_vars >>
    ELSE LET is_new_search == search_id' # view_search_id IN
         /\ view_search_id' = search_id'
         /\ cursor' = IF is_new_search THEN MatchStart(0) ELSE cursor
         /\ update_match_index
         /\ IF is_new_search /\ focus = "query_editor"
            THEN focus_results_editor
            ELSE UNCHANGED focus_vars

\* Direction::{Next, Prev}
Directions == {"Next", "Prev"}

\* Editor::match_index_for_direction(ranges, index, direction, 1) for n ranges.
MatchIndexForDirection(n, index, direction) ==
    IF direction = "Next" THEN (index + 1) % n ELSE (index - 1 + n) % n

\* The trace after a call of select_match(direction).
Traced(direction) ==
    << [direction |-> direction, index |-> active_match_index] >>
    \o (IF nav_trace = << >> THEN << >> ELSE << nav_trace[1] >>)

\* Mutant of select_match: the new index is computed but the range is not
\* selected.
select_match_without_selection(direction) ==
    /\ UNCHANGED << model_vars, semantic, search_options, panels_with_errors,
                    view_search_id, current_mode >>
    /\ nav_trace' = Traced(direction)
    /\ UNCHANGED cursor
    /\ update_match_index
    /\ last_op' = IF direction = "Next" THEN "select_next" ELSE "select_prev"
    /\ UNCHANGED << text_vars, semantic_enabled, index_tasks, glob_vars, dir_entry, focus_vars, views, suppressed, peer, superseded >>

\* Mutant of select_match: the direction is not handed on, the range after the
\* active one is selected whichever way was asked for.
select_match_always_next(direction) ==
    /\ UNCHANGED << model_vars, semantic, search_options, panels_with_errors,
                    view_search_id, current_mode >>
    /\ nav_trace' = Traced(direction)
    /\ IF IsSome(active_match_index)
       THEN LET new_index == MatchIndexForDirection(Len(match_ranges),
                                 Unwrap(active_match_index), "Next") IN
            /\ cursor' = MatchStart(new_index)
            /\ update_match_index
       ELSE UNCHANGED << cursor, active_match_index >>
    /\ last_op' = IF direction = "Next" THEN "select_next" ELSE "select_prev"
    /\ UNCHANGED << text_vars, semantic_enabled, index_tasks, glob_vars, dir_entry, focus_vars, views, suppressed, peer, superseded >>

\* Mutant of select_match: without an active index the first range is selected.
select_match_from_first(direction) ==
    /\ UNCHANGED << model_vars, semantic, search_options, panels_with_errors,
                    view_search_id, current_mode >>
    /\ nav_trace' = Traced(direction)
    /\ cursor' = IF IsSome(active_match_index)
                 THEN MatchStart(MatchIndexForDirection(Len(match_ranges),
                                     Unwrap(active_match_index), direction))
                 ELSE MatchStart(0)
    /\ active_match_index' = IF Len(match_ranges) = 0 THEN Some(0)
                             ELSE ActiveMatchIndex(Len(match_ranges), cursor')
    /\ last_op' = IF direction = "Next" THEN "select_next" ELSE "select_prev"
    /\ UNCHANGED << text_vars, semantic_enabled, index_tasks, glob_vars, dir_entry, focus_vars, views, suppressed, peer, superseded >>

\* ProjectSearchView::select_match: with an active index, the range at the
\* index match_index_for_direction returns is selected in the results editor,
\* which raises SelectionsChanged and so runs update_match_index.
select_match(direction) ==
    /\ UNCHANGED << model_vars, semantic, search_options, panels_with_errors,
                    view_search_id, current_mode >>
    /\ nav_trace' = Traced(direction)
    /\ IF IsSome(active_match_index)
       THEN LET new_index == MatchIndexForDirection(Len(match_ranges),
                                 Unwrap(active_match_index), direction) IN
            /\ cursor' = MatchStart(new_index)
            /\ update_match_index
       ELSE UNCHANGED << cursor, active_match_index >>
    /\ last_op' = IF direction = "Next" THEN "select_next" ELSE "select_prev"
    /\ UNCHANGED << text_vars, semantic_enabled, index_tasks, glob_vars, dir_entry, focus_vars, views, suppressed, peer, superseded >>

\* The positions the cursor of the results editor can be put at: the start of
\* the buffer, a match, or past the last match.
CursorPositions == 0..(MaxMatches + 1)

\* The user moves the cursor of the results editor: SelectionsChanged runs
\* update_match_index.
MoveCursor(c) ==
    /\ UNCHANGED << model_vars, semantic, search_options, panels_with_errors,
                    view_search_id, current_mode >>
    /\ c # cursor
    /\ cursor' = c
    /\ update_match_index
    /\ last_op' = "move_cursor"
    /\ nav_trace' = << >>
    /\ UNCHANGED << text_vars, semantic_enabled, index_tasks, glob_vars, dir_entry, focus_vars, views, suppressed, peer, superseded >>

\* ------------------------------------------------------------- ProjectSearch

NewTask(id, kind) ==
    [id |-> id, kind |-> kind, pc |-> "engine", todo |-> << >>, ready |-> << >>]

\* The task whose handle pending_search holds.
PendingTasks == {t \in tasks : IsSome(pending_search) /\ t.id = Unwrap(pending_search)}

\* Mutant of SpawnPending: the task spawned before keeps running (as if it had
\* been detached).
SpawnDetached(t) == tasks \cup {t}

\* self.pending_search = Some(cx.spawn(..)): the new task is scheduled and the
\* Task handle held before is dropped, which cancels that task.
SpawnPending(t) == (tasks \ PendingTasks) \cup {t}

\* The pending task, if the search being issued drops it in flight.
DroppedInFlight == {t.id : t \in {u \in PendingTasks : u.pc \in {"engine", "stream"}}}

\* Mutant of search: match_ranges is not cleared when the search is issued.
search_keeping_matches(query) ==
    /\ search_id' = search_id + 1
    /\ active_query' = Some(query)
    /\ pending_search' = Some(search_id + 1)
    /\ tasks' = SpawnPending(NewTask(search_id + 1, "text"))
    /\ superseded' = superseded \cup DroppedInFlight
    /\ UNCHANGED << match_ranges, excerpts >>
    /\ model_changed

\* ProjectSearch::search
search(query) ==
    /\ search_id' = search_id + 1
    /\ active_query' = Some(query)
    /\ match_ranges' = << >>
    /\ pending_search' = Some(search_id + 1)
    /\ tasks' = SpawnPending(NewTask(search_id + 1, "text"))
    /\ superseded' = superseded \cup DroppedInFlight
    /\ UNCHANGED excerpts
    /\ model_changed

\* Mutant of semantic_search: the generation is not advanced.
semantic_search_same_generation(query) ==
    /\ search_id' = search_id
    /\ match_ranges' = << >>
    /\ pending_search' = Some(search_id)
    /\ tasks' = SpawnPending(NewTask(search_id, "semantic"))
    /\ superseded' = superseded \cup DroppedInFlight
    /\ UNCHANGED << active_query, excerpts >>
    /\ model_changed

\* ProjectSearch::semantic_search
semantic_search(query) ==
    /\ search_id' = search_id + 1
    /\ match_ranges' = << >>
    /\ pending_search' = Some(search_id + 1)
    /\ tasks' = SpawnPending(NewTask(search_id + 1, "semantic"))
    /\ superseded' = superseded \cup DroppedInFlight
    /\ UNCHANGED << active_query, excerpts >>
    /\ model_changed

\* ------------------------------------------- the task spawned by a search

ReplaceTask(t, u) == (tasks \ {t}) \cup {u}

\* search.await returns Ok(matches) in the task of ProjectSearch::search: the
\* ranges and the excerpts are cleared, the matches sorted by path and streamed.
EngineReturnText(t, r) ==
    /\ t.kind = "text" /\ t.pc = "engine"
    /\ match_ranges' = << >>
    /\ excerpts' = << >>
    /\ tasks' = ReplaceTask(t, [t EXCEPT !.pc = "stream",
                                         !.todo = StreamOf(SortByPath(r), t.id)])
    /\ last_op' = "engine_ok"
    /\ UNCHANGED << search_id, active_query, pending_search >>
    /\ UNCHANGED << view_vars, text_vars, semantic_enabled, index_tasks, glob_vars, dir_entry, focus_vars, views, suppressed, peer, nav_trace, superseded >>

\* search?.await returns Ok(results) in the task of semantic_search: the
\* excerpts are cleared and the results streamed in the order they came in.
EngineReturnSemantic(t, r) ==
    /\ t.kind = "semantic" /\ t.pc = "engine"
    /\ semantic_enabled
    /\ excerpts' = << >>
    /\ tasks' = ReplaceTask(t, [t EXCEPT !.pc = "stream", !.todo = StreamOf(r, t.id)])
    /\ last_op' = "engine_ok"
    /\ UNCHANGED << search_id, active_query, match_ranges, pending_search >>
    /\ UNCHANGED << view_vars, text_vars, semantic_enabled, index_tasks, glob_vars, dir_entry, focus_vars, views, suppressed, peer, nav_trace, superseded >>

\* The tasks and the handle after the engine call of task t failed:
\* `search.await.log_err()?` (or `search?` without a semantic index) leaves the
\* async block; the finished task's handle stays in pending_search.
AfterEngineFailure(t) ==
    [tasks |-> ReplaceTask(t, [t EXCEPT !.pc = "failed"]), pending |-> pending_search]

EngineFail(t) ==
    /\ t.pc = "engine"
    /\ tasks' = AfterEngineFailure(t).tasks
    /\ pending_search' = AfterEngineFailure(t).pending
    /\ last_op' = "engine_failed"
    /\ UNCHANGED << search_id, active_query, match_ranges, excerpts >>
    /\ UNCHANGED << view_vars, text_vars, semantic_enabled, index_tasks, glob_vars, dir_entry, focus_vars, views, suppressed, peer, nav_trace, superseded >>

\* stream_excerpts_with_context_lines' own task (held as _task by the search
\* task): it inserts the next excerpt and sends its range down the channel.
StreamProduce(t) ==
    /\ t.pc = "stream" /\ t.todo # << >>
    /\ excerpts' = Append(excerpts, Head(t.todo))
    /\ tasks' = ReplaceTask(t, [t EXCEPT !.todo = Tail(t.todo),
                                         !.ready = Append(t.ready, Head(t.todo))])
    /\ last_op' = "stream_produce"
    /\ UNCHANGED << search_id, active_query, match_ranges, pending_search >>
    /\ UNCHANGED << view_vars, text_vars, semantic_enabled, index_tasks, glob_vars, dir_entry, focus_vars, views, suppressed, peer, nav_trace, superseded >>

\* Mutant of Drained: the pass pushes the range it awaited and loses those that
\* were ready besides.
DrainedFirstOnly(t) == << Head(t.ready) >>

\* The ranges one pass of the `while let Some(..) = match_ranges.next().await`
\* loop pushes: the one awaited and all that try_next() finds ready.
Drained(t) == t.ready

\* Mutant of StreamConsume: the ranges of the pass replace those pushed before.
StreamConsumeReplacing(t) ==
    /\ t.pc = "stream" /\ t.ready # << >>
    /\ match_ranges' = Drained(t)
    /\ tasks' = ReplaceTask(t, [t EXCEPT !.ready = << >>])
    /\ last_op' = "stream_consume"
    /\ UNCHANGED << search_id, active_query, excerpts, pending_search >>
    /\ UNCHANGED << semantic, search_options, panels_with_errors, current_mode >>
    /\ UNCHANGED << text_vars, semantic_enabled, index_tasks, glob_vars, dir_entry, views, suppressed, peer, nav_trace, superseded >>
    /\ model_changed

\* One pass of the loop: push the ranges, cx.notify().
StreamConsume(t) ==
    /\ t.pc = "stream" /\ t.ready # << >>
    /\ match_ranges' = match_ranges \o Drained(t)
    /\ tasks' = ReplaceTask(t, [t EXCEPT !.ready = << >>])
    /\ last_op' = "stream_consume"
    /\ UNCHANGED << search_id, active_query, excerpts, pending_search >>
    /\ UNCHANGED << semantic, search_options, panels_with_errors, current_mode >>
    /\ UNCHANGED << text_vars, semantic_enabled, index_tasks, glob_vars, dir_entry, views, suppressed, peer, nav_trace, superseded >>
    /\ model_changed

\* Mutant of TakePending: the handle is left in place.
TakePendingForgotten == pending_search

\* this.pending_search.take() at the end of the task.
TakePending == None

\* The stream has ended: the task takes pending_search (dropping the handle it
\* held), notifies and returns.
StreamFinish(t) ==
    /\ t.pc = "stream" /\ t.todo = << >> /\ t.ready = << >>
    /\ pending_search' = TakePending
    /\ tasks' = IF pending_search' = None THEN (tasks \ {t}) \ PendingTasks ELSE tasks \ {t}
    /\ last_op' = "stream_finish"
    /\ UNCHANGED << search_id, active_query, match_ranges, excerpts >>
    /\ UNCHANGED << semantic, search_options, panels_with_errors, current_mode >>
    /\ UNCHANGED << text_vars, semantic_enabled, index_tasks, glob_vars, dir_entry, views, suppressed, peer, nav_trace, superseded >>
    /\ model_changed

TaskStep ==
    \E t \in tasks :
        \/ \E r \in TextResults : EngineReturnText(t, r)
        \/ \E r \in SemanticResults : EngineReturnSemantic(t, r)
        \/ EngineFail(t)
        \/ StreamProduce(t)
        \/ StreamConsume(t)
        \/ StreamFinish(t)

\* ---------------------------------------------------------- ProjectSearchView

\* SearchQuery::regex(text, ..) compiles the text: it fails on an unclosed group,
\* the only malformed expression QueryTexts can spell.
RegexCompiles(text) == \A i \in 1..Len(text) : text[i] # "("

Query(kind, text, opts, inc, exc) ==
    [kind |-> kind, text |-> text,
     whole_word |-> "WHOLE_WORD" \in opts, case_sensitive |-> "CASE_SENSITIVE" \in opts,
     files_to_include |-> inc, files_to_exclude |-> exc]

\* Mutant of build_search_query: a failure of the exclude list is flagged but
\* the query is built all the same, without exclude matchers.
build_search_query_despite_exclude(opts, errs) ==
    LET inc == load_glob_set(include_text) IN
    IF ~inc.ok THEN [query |-> None, errors |-> errs \cup {"Include"}]
    ELSE
    LET exc == load_glob_set(exclude_text)
        errs2 == IF exc.ok THEN errs \ {"Include", "Exclude"}
                 ELSE (errs \ {"Include"}) \cup {"Exclude"} IN
    IF "REGEX" \in opts /\ ~RegexCompiles(query_text)
    THEN [query |-> None, errors |-> errs2 \cup {"Query"}]
    ELSE [query |-> Some(Query(IF "REGEX" \in opts THEN "regex" ELSE "text", query_text,
                               opts, inc.matchers, exc.matchers)),
          errors |-> errs2]

\* ProjectSearchView::build_search_query with the options opts and the error
\* set errs: the query built, if any, and the error set afterwards.
build_search_query(opts, errs) ==
    LET inc == load_glob_set(include_text) IN
    IF ~inc.ok THEN [query |-> None, errors |-> errs \cup {"Include"}]
    ELSE
    LET errs1 == errs \ {"Include"}
        exc == load_glob_set(exclude_text) IN
    IF ~exc.ok THEN [query |-> None, errors |-> errs1 \cup {"Exclude"}]
    ELSE
    LET errs2 == errs1 \ {"Exclude"} IN
    IF "REGEX" \in opts
    THEN IF RegexCompiles(query_text)
         THEN [query |-> Some(Query("regex", query_text, opts, inc.matchers, exc.matchers)),
               errors |-> errs2 \ {"Query"}]
         ELSE [query |-> None, errors |-> errs2 \cup {"Query"}]
    ELSE [query |-> Some(Query("text", query_text, opts, inc.matchers, exc.matchers)),
          errors |-> errs2]

\* ProjectSearchView::get_included_and_excluded_globsets
get_included_and_excluded_globsets(errs) ==
    LET inc == load_glob_set(include_text) IN
    IF ~inc.ok THEN [ok |-> FALSE, errors |-> errs \cup {"Include"}]
    ELSE
    LET errs1 == errs \ {"Include"}
        exc == load_glob_set(exclude_text) IN
    IF ~exc.ok THEN [ok |-> FALSE, errors |-> errs1 \cup {"Exclude"}]
    ELSE [ok |-> TRUE, errors |-> errs1 \ {"Exclude"}]

\* Mutant of IndexingOutstanding: the outstanding count is not looked at.
IndexingIgnored(sem) == FALSE

\* Whether ProjectSearchView::search returns at once: the semantic state exists
\* and indexing is outstanding.
IndexingOutstanding(sem) == IsSome(sem) /\ Unwrap(sem).outstanding_file_count > 0

\* What ProjectSearchView::search does with the semantic state sem, the options
\* opts and the error set errs: which search it issues, if any, and the error
\* set afterwards.
view_search(sem, opts, errs) ==
    IF IsSome(sem)
    THEN IF IndexingOutstanding(sem)
         THEN [kind |-> "none", query |-> None, errors |-> errs]
         ELSE LET g == get_included_and_excluded_globsets(errs) IN
              IF g.ok
              THEN [kind |-> "semantic", query |-> Some(query_text), errors |-> g.errors]
              ELSE [kind |-> "none", query |-> None, errors |-> g.errors]
    ELSE LET b == build_search_query(opts, errs) IN
         IF IsSome(b.query)
         THEN [kind |-> "text", query |-> b.query, errors |-> b.errors]
         ELSE [kind |-> "none", query |-> None, errors |-> b.errors]

\* ProjectSearchView::search as a step from the semantic state sem, the options
\* opts and the error set errs (those of the handler that calls it).
Issue(sem, opts, errs) ==
    LET o == view_search(sem, opts, errs) IN
    /\ panels_with_errors' = o.errors
    /\ CASE o.kind = "text" ->
              /\ search_id < MaxSearches
              /\ search(Unwrap(o.query))
         [] o.kind = "semantic" ->
              /\ search_id < MaxSearches
              /\ semantic_search(Unwrap(o.query))
         [] OTHER ->
              /\ UNCHANGED << model_vars, superseded >>
              /\ UNCHANGED << active_match_index, view_search_id, cursor, focus_vars >>
    /\ suppressed' = IF o.kind = "none" /\ IsSome(sem)
                     THEN suppressed \/ Unwrap(sem).outstanding_file_count > 0
                     ELSE FALSE

\* ----------------------------------------------------------- ProjectSearchBar

\* ProjectSearchBar::search (Confirm)
BarSearch ==
    /\ Issue(semantic, search_options, panels_with_errors)
    /\ last_op' = "search"
    /\ UNCHANGED << semantic, search_options, current_mode >>
    /\ UNCHANGED << text_vars, semantic_enabled, index_tasks, glob_vars, dir_entry, views, peer, nav_trace >>

ToggleOption(opts, o) == IF o \in opts THEN opts \ {o} ELSE opts \cup {o}

\* ProjectSearchBar::toggle_search_option
toggle_search_option(option) ==
    /\ search_options' = ToggleOption(search_options, option)
    /\ current_mode' = IF option = "REGEX" THEN "Regex" ELSE current_mode
    /\ semantic' = None
    /\ Issue(None, search_options', panels_with_errors)
    /\ last_op' = "toggle_search_option"
    /\ UNCHANGED << text_vars, semantic_enabled, index_tasks, glob_vars, dir_entry, views, peer, nav_trace >>

\* ProjectSearchBar::toggle_filters. filters_enabled, which only shows or hides
\* the include and exclude editors and is read by render alone, is left out.
toggle_filters ==
    /\ semantic' = None
    /\ Issue(None, search_options, panels_with_errors)
    /\ last_op' = "toggle_filters"
    /\ UNCHANGED << search_options, current_mode >>
    /\ UNCHANGED << text_vars, semantic_enabled, index_tasks, glob_vars, dir_entry, views, peer, nav_trace >>

\* ProjectSearchBar::toggle_semantic_search
toggle_semantic_search ==
    /\ IF IsSome(semantic)
       THEN /\ semantic' = None
            /\ UNCHANGED << current_mode, search_options, index_tasks >>
       ELSE IF semantic_enabled
            THEN /\ index_tasks < MaxIndexTasks
                 /\ current_mode' = "Semantic"
                 /\ search_options' = {}
                 /\ index_tasks' = index_tasks + 1
                 /\ UNCHANGED semantic
            ELSE UNCHANGED << semantic, current_mode, search_options, index_tasks >>
    /\ last_op' = "toggle_semantic_search"
    /\ UNCHANGED << model_vars, panels_with_errors, active_match_index, view_search_id, cursor >>
    /\ UNCHANGED << text_vars, semantic_enabled, glob_vars, dir_entry, focus_vars, views, peer, nav_trace, superseded >>
    /\ suppressed' = FALSE

\* The click handler of the Text button (render_text_search_button)
text_search_button ==
    /\ semantic' = None
    /\ current_mode' = "Text"
    /\ last_op' = "text_search_button"
    /\ UNCHANGED << model_vars, search_options, panels_with_errors, active_match_index,
                    view_search_id, cursor >>
    /\ UNCHANGED << text_vars, semantic_enabled, index_tasks, glob_vars, dir_entry, focus_vars, views, peer, nav_trace, superseded >>
    /\ suppressed' = FALSE

\* Mutant of cycle_mode: Text is followed by Semantic whether or not semantic
\* indexing is enabled.
cycle_mode_ignoring_enabled ==
    /\ current_mode' = CASE current_mode = "Text" -> "Semantic"
                         [] current_mode = "Semantic" -> "Regex"
                         [] OTHER -> "Text"
    /\ last_op' = "cycle_mode"
    /\ UNCHANGED << model_vars, semantic, search_options, panels_with_errors,
                    active_match_index, view_search_id, cursor >>
    /\ UNCHANGED << text_vars, semantic_enabled, index_tasks, glob_vars, dir_entry, focus_vars,
                    views, suppressed, peer, nav_trace, superseded >>

\* ProjectSearchBar::cycle_mode
cycle_mode ==
    /\ current_mode' = CASE current_mode = "Text" ->
                              IF semantic_enabled THEN "Semantic" ELSE "Regex"
                         [] current_mode = "Semantic" -> "Regex"
                         [] OTHER -> "Text"
    /\ last_op' = "cycle_mode"
    /\ UNCHANGED << model_vars, semantic, search_options, panels_with_errors,
                    active_match_index, view_search_id, cursor >>
    /\ UNCHANGED << text_vars, semantic_enabled, index_tasks, glob_vars, dir_entry, focus_vars, views, suppressed, peer, nav_trace, superseded >>

\* index_task.await returns Ok((files_to_index, files_remaining_rx)) in the task
\* toggle_semantic_search spawned: the semantic state is created.
IndexReturn(files_to_index) ==
    /\ index_tasks > 0
    /\ index_tasks' = index_tasks - 1
    /\ semantic' = Some([file_count |-> files_to_index,
                         outstanding_file_count |-> files_to_index,
                         progress_task |-> [received |-> None]])
    /\ last_op' = "index_return"
    /\ UNCHANGED << model_vars, search_options, panels_with_errors, active_match_index,
                    view_search_id, current_mode, cursor >>
    /\ UNCHANGED << text_vars, semantic_enabled, glob_vars, dir_entry, focus_vars, views, peer, nav_trace, superseded >>
    /\ suppressed' = FALSE

\* index_task.await? returns Err: the task ends and the error is logged.
IndexFail ==
    /\ index_tasks > 0
    /\ index_tasks' = index_tasks - 1
    /\ last_op' = "index_failed"
    /\ UNCHANGED << model_vars, view_vars, text_vars, semantic_enabled, glob_vars, dir_entry, focus_vars, views, suppressed, peer, nav_trace, superseded >>

\* Mutant of ProgressRecv: a request that was suppressed is carried out once
\* the count is 0.
ProgressRecvResuming(count) ==
    /\ IsSome(semantic)
    /\ semantic' = Some([Unwrap(semantic) EXCEPT !.outstanding_file_count = count,
                                                 !.progress_task.received = Some(count)])
    /\ last_op' = "progress"
    /\ IF count = 0 /\ suppressed /\ search_id < MaxSearches
       THEN /\ semantic_search(query_text)
            /\ suppressed' = FALSE
       ELSE UNCHANGED << model_vars, active_match_index, view_search_id, cursor,
                         focus_vars, superseded, suppressed >>
    /\ UNCHANGED << search_options, panels_with_errors, current_mode >>
    /\ UNCHANGED << text_vars, semantic_enabled, index_tasks, glob_vars, dir_entry, views, peer, nav_trace >>

\* Mutant of ProgressRecv: the state is discarded when the count is 0.
ProgressRecvDiscarding(count) ==
    /\ IsSome(semantic)
    /\ semantic' = IF count = 0 THEN None
                   ELSE Some([Unwrap(semantic) EXCEPT !.outstanding_file_count = count,
                                                      !.progress_task.received = Some(count)])
    /\ last_op' = "progress"
    /\ UNCHANGED << model_vars, search_options, panels_with_errors, active_match_index,
                    view_search_id, current_mode, cursor >>
    /\ UNCHANGED << text_vars, semantic_enabled, index_tasks, glob_vars, dir_entry, focus_vars, views,
                    suppressed, peer, nav_trace, superseded >>

\* Mutant of ProgressRecv: the outstanding count is counted down by one for
\* every value received instead of being set to the value.
ProgressRecvCountingDown(count) ==
    /\ IsSome(semantic)
    /\ semantic' = Some([Unwrap(semantic) EXCEPT
                            !.outstanding_file_count =
                                IF @ > 0 THEN @ - 1 ELSE 0,
                            !.progress_task.received = Some(count)])
    /\ last_op' = "progress"
    /\ UNCHANGED << model_vars, search_options, panels_with_errors, active_match_index,
                    view_search_id, current_mode, cursor >>
    /\ UNCHANGED << text_vars, semantic_enabled, index_tasks, glob_vars, dir_entry, focus_vars, views,
                    suppressed, peer, nav_trace, superseded >>

\* files_remaining_rx.recv() yields count in the progress task the semantic
\* state holds.
ProgressRecv(count) ==
    /\ IsSome(semantic)
    /\ semantic' = Some([Unwrap(semantic) EXCEPT !.outstanding_file_count = count,
                                                 !.progress_task.received = Some(count)])
    /\ last_op' = "progress"
    /\ UNCHANGED << model_vars, search_options, panels_with_errors, active_match_index,
                    view_search_id, current_mode, cursor >>
    /\ UNCHANGED << text_vars, semantic_enabled, index_tasks, glob_vars, dir_entry, focus_vars, views, suppressed, peer, nav_trace, superseded >>

\* The user edits the query, include or exclude editor.
EditQuery(text) ==
    /\ text # query_text
    /\ query_text' = text
    /\ last_op' = "edit"
    /\ UNCHANGED << model_vars, view_vars, include_text, exclude_text,
                    semantic_enabled, index_tasks, glob_vars, dir_entry, focus_vars, views, suppressed, peer, nav_trace, superseded >>

EditInclude(text) ==
    /\ text # include_text
    /\ include_text' = text
    /\ last_op' = "edit"
    /\ UNCHANGED << model_vars, view_vars, query_text, exclude_text,
                    semantic_enabled, index_tasks, glob_vars, dir_entry, focus_vars, views, suppressed, peer, nav_trace, superseded >>

EditExclude(text) ==
    /\ text # exclude_text
    /\ exclude_text' = text
    /\ last_op' = "edit"
    /\ UNCHANGED << model_vars, view_vars, query_text, include_text,
                    semantic_enabled, index_tasks, glob_vars, dir_entry, focus_vars, views, suppressed, peer, nav_trace, superseded >>

\* ------------------------------------------------------- ProjectSearch::clone

\* The handle of the excerpt container ProjectSearch::new allocates.
FirstExcerpts == 1

\* Mutant of CloneExcerpts: the copy is given the source's handle.
ShareExcerpts(handle) == handle

\* cx.add_model(|cx| excerpts.clone(cx)): a container of its own, allocated
\* after the one it is cloned from.
CloneExcerpts(handle) == handle + 1

\* Mutant of clone: the copy is given the source's pending_search.
clone_sharing_pending ==
    [search_id |-> search_id, active_query |-> active_query,
     match_ranges |-> match_ranges, pending_search |-> pending_search,
     excerpts_handle |-> CloneExcerpts(FirstExcerpts), excerpts |-> excerpts]

\* The ProjectSearch that ProjectSearch::clone builds from the model: the handle
\* and the content of its excerpt container and the fields it copies or resets.
clone ==
    [search_id |-> search_id, active_query |-> active_query,
     match_ranges |-> match_ranges, pending_search |-> None,
     excerpts_handle |-> CloneExcerpts(FirstExcerpts), excerpts |-> excerpts]

\* The ProjectSearch being cloned, as a record.
CloneSource ==
    [search_id |-> search_id, active_query |-> active_query,
     match_ranges |-> match_ranges, pending_search |-> pending_search,
     excerpts_handle |-> FirstExcerpts, excerpts |-> excerpts]

\* The content of the peer's excerpt container: that of the model's container
\* if both hold the same handle.
PeerExcerpts(p) == IF p.model.excerpts_handle = p.other_handle THEN excerpts ELSE p.model.excerpts

\* SearchOptions::from_query
OptionsFromQuery(q) ==
    (IF q.whole_word THEN {"WHOLE_WORD"} ELSE {})
    \cup (IF q.case_sensitive THEN {"CASE_SENSITIVE"} ELSE {})
    \cup (IF q.kind = "regex" THEN {"REGEX"} ELSE {})

\* ProjectSearchView::new(model) for the model as it is after the step: the
\* query text and the options come from the active query, and the
\* constructor ends with model_changed.
ProjectSearchView_new ==
    /\ query_text' = IF IsSome(active_query') THEN Unwrap(active_query').text ELSE << >>
    /\ search_options' = IF IsSome(active_query') THEN OptionsFromQuery(Unwrap(active_query'))
                         ELSE {}
    /\ include_text' = << >>
    /\ exclude_text' = << >>
    /\ query_editor_was_focused' = FALSE
    /\ semantic' = None
    /\ panels_with_errors' = {}
    /\ current_mode' = "Text"
    /\ view_search_id' = search_id'
    /\ cursor' = 0
    /\ active_match_index' = IF match_ranges' = << >> THEN None
                             ELSE ActiveMatchIndex(Len(match_ranges'), cursor')

\* ProjectSearchView::focus_in when the view itself is given the focus (it has
\* been added to the workspace and activated): the focus goes on to the editor
\* query_editor_was_focused names; the constructor has set it to false.
focus_in ==
    focus' = IF query_editor_was_focused' THEN "query_editor" ELSE "results_editor"

\* ProjectSearch::clone, the model going on as the source: the copy becomes the
\* peer.
clone_keep_source ==
    /\ peer = None
    /\ peer' = Some([role |-> "copy", model |-> clone, other_handle |-> FirstExcerpts])
    /\ last_op' = "clone"
    /\ UNCHANGED << model_vars, view_vars, text_vars, semantic_enabled, index_tasks,
                    glob_vars, dir_entry, focus_vars, views, suppressed, nav_trace, superseded >>

\* ProjectSearchView::clone_on_split, the model going on as the copy in its new
\* view: the source, with the tasks it has in flight, becomes the peer.
clone_on_split ==
    /\ peer = None
    /\ peer' = Some([role |-> "source", model |-> CloneSource,
                     other_handle |-> clone.excerpts_handle])
    /\ search_id' = clone.search_id
    /\ active_query' = clone.active_query
    /\ match_ranges' = clone.match_ranges
    /\ excerpts' = clone.excerpts
    /\ pending_search' = clone.pending_search
    /\ tasks' = {}
    /\ ProjectSearchView_new
    /\ nav_trace' = << >>
    /\ last_op' = "clone_on_split"
    /\ views' = views + 1
    /\ focus_in
    /\ suppressed' = FALSE
    /\ UNCHANGED << semantic_enabled, index_tasks, glob_vars, dir_entry, superseded >>

\* ------------------------------------------------- the workspace's handlers

\* ProjectSearch::new
ProjectSearch_new ==
    /\ search_id' = 0
    /\ active_query' = None
    /\ match_ranges' = << >>
    /\ excerpts' = << >>
    /\ pending_search' = None
    /\ tasks' = {}

\* The view that was active, once another view has been added in front of it,
\* with the query text, the options and the error set the handler leaves it;
\* its model is not touched.
Background(text, opts, errs) ==
    Some([role |-> "background",
          view |-> [query_text |-> text, search_options |-> opts,
                    panels_with_errors |-> errs]])

\* Mutant of deploy: a view is created whether or not the workspace has one.
deploy_always_new(suggestion) ==
    LET query == IF suggestion = << >> THEN None ELSE Some(suggestion) IN
    /\ views < MaxViews
    /\ ProjectSearch_new
    /\ ProjectSearchView_new
    /\ views' = views + 1
    /\ focus' = "query_editor"
    /\ peer' = IF views > 0 THEN Background(query_text, search_options, panels_with_errors)
               ELSE peer
    /\ superseded' = {}
    /\ suppressed' = FALSE
    /\ nav_trace' = << >>
    /\ last_op' = "deploy"
    /\ UNCHANGED << semantic_enabled, index_tasks, glob_vars, dir_entry >>

\* ProjectSearchView::deploy (NewSearch), called with the query suggestion of
\* the active item (empty when there is none): the view the workspace has is
\* activated again, or a model and a view are created when it has none; the
\* suggestion, if any, becomes the query text and the query editor is focused.
deploy(suggestion) ==
    LET query == IF suggestion = << >> THEN None ELSE Some(suggestion) IN
    /\ IF views > 0
       THEN /\ UNCHANGED << model_vars, view_vars, include_text, exclude_text, views,
                            superseded, suppressed, nav_trace >>
            /\ query_text' = IF IsSome(query) THEN Unwrap(query) ELSE query_text
       ELSE /\ ProjectSearch_new
            /\ search_options' = {}
            /\ include_text' = << >>
            /\ exclude_text' = << >>
            /\ semantic' = None
            /\ panels_with_errors' = {}
            /\ current_mode' = "Text"
            /\ view_search_id' = search_id'
            /\ cursor' = 0
            /\ active_match_index' = None
            /\ query_text' = IF IsSome(query) THEN Unwrap(query) ELSE << >>
            /\ views' = 1
            /\ superseded' = {}
            /\ suppressed' = FALSE
            /\ nav_trace' = << >>
    /\ focus_query_editor
    /\ last_op' = "deploy"
    /\ UNCHANGED << semantic_enabled, index_tasks, glob_vars, dir_entry, peer >>

\* ProjectSearchBar::search_in_new on the active view: the query is built from
\* the view's fields; if it is built, the view gets back the text and the
\* options of the query its results are for, a new model is created and
\* searched with the query, and only then the view of the new model is
\* created, added to the workspace and focused.
search_in_new ==
    /\ views > 0
    /\ LET b == build_search_query(search_options, panels_with_errors) IN
       IF ~IsSome(b.query)
       THEN /\ panels_with_errors' = b.errors
            /\ UNCHANGED << model_vars, semantic, search_options, active_match_index,
                            view_search_id, current_mode, cursor, text_vars, focus_vars,
                            views, peer, superseded, suppressed, nav_trace >>
       ELSE /\ views < MaxViews
            /\ peer' = IF IsSome(active_query)
                       THEN Background(Unwrap(active_query).text,
                                       OptionsFromQuery(Unwrap(active_query)), b.errors)
                       ELSE Background(query_text, search_options, b.errors)
            /\ search_id' = 0 + 1
            /\ active_query' = b.query
            /\ match_ranges' = << >>
            /\ excerpts' = << >>
            /\ pending_search' = Some(search_id')
            /\ tasks' = {NewTask(search_id', "text")}
            /\ superseded' = {}
            /\ ProjectSearchView_new
            /\ focus_in
            /\ views' = views + 1
            /\ suppressed' = FALSE
            /\ nav_trace' = << >>
    /\ last_op' = "search_in_new"
    /\ UNCHANGED << semantic_enabled, index_tasks, glob_vars, dir_entry >>

\* The worktree entries new_search_in_directory is called with: a file or a
\* directory, its path relative to the worktree (empty for the root), and
\* whether the path is valid Unicode.
DirPaths == { << >>, << "a" >> }
DirEntries == [is_dir : BOOLEAN, path : DirPaths, unicode : BOOLEAN]

\* Path::join(component) for a relative component.
PathJoin(path, component) ==
    IF path = << >> THEN component
    ELSE IF path[Len(path)] = "/" THEN path \o component
    ELSE path \o << "/" >> \o component

\* Path::to_str of a path of the entry
to_str(entry, path) == IF entry.unicode THEN Some(path) ELSE None

\* Mutant of new_search_in_directory: the include editor is left empty.
new_search_in_directory_unfiltered(dir_entry_arg) ==
    LET filter_path == PathJoin(dir_entry_arg.path, << "*", "*" >>)
        filter_str == to_str(dir_entry_arg, filter_path) IN
    /\ dir_entry' = Some(dir_entry_arg)
    /\ IF ~dir_entry_arg.is_dir \/ ~IsSome(filter_str)
       THEN UNCHANGED << model_vars, view_vars, text_vars, focus_vars, views, peer,
                         superseded, suppressed, nav_trace >>
       ELSE /\ views < MaxViews
            /\ ProjectSearch_new
            /\ ProjectSearchView_new
            /\ views' = views + 1
            /\ focus' = "query_editor"
            /\ peer' = IF views > 0
                       THEN Background(query_text, search_options, panels_with_errors)
                       ELSE peer
            /\ superseded' = {}
            /\ suppressed' = FALSE
            /\ nav_trace' = << >>
    /\ last_op' = "new_search_in_directory"
    /\ UNCHANGED << semantic_enabled, index_tasks, glob_vars >>

\* ProjectSearchView::new_search_in_directory
new_search_in_directory(dir_entry_arg) ==
    LET filter_path == PathJoin(dir_entry_arg.path, << "*", "*" >>)
        filter_str == to_str(dir_entry_arg, filter_path) IN
    /\ dir_entry' = Some(dir_entry_arg)
    /\ IF ~dir_entry_arg.is_dir \/ ~IsSome(filter_str)
       THEN UNCHANGED << model_vars, view_vars, text_vars, focus_vars, views, peer,
                         superseded, suppressed, nav_trace >>
       ELSE /\ views < MaxViews
            /\ ProjectSearch_new
            /\ search_options' = {}
            /\ semantic' = None
            /\ panels_with_errors' = {}
            /\ current_mode' = "Text"
            /\ view_search_id' = search_id'
            /\ cursor' = 0
            /\ active_match_index' = None
            /\ query_text' = << >>
            /\ include_text' = Unwrap(filter_str)
            /\ exclude_text' = << >>
            /\ focus_query_editor
            /\ views' = views + 1
            /\ peer' = IF views > 0
                       THEN Background(query_text, search_options, panels_with_errors)
                       ELSE peer
            /\ superseded' = {}
            /\ suppressed' = FALSE
            /\ nav_trace' = << >>
    /\ last_op' = "new_search_in_directory"
    /\ UNCHANGED << semantic_enabled, index_tasks, glob_vars >>

\* Mutant of move_focus_to_results: the focus moves whether or not there are
\* matches.
move_focus_to_results_always ==
    /\ views > 0
    /\ IF focus # "results_editor"
       THEN focus_results_editor
       ELSE UNCHANGED focus_vars
    /\ last_op' = "toggle_focus"
    /\ UNCHANGED << model_vars, view_vars, text_vars, semantic_enabled, index_tasks,
                    glob_vars, dir_entry, views, suppressed, peer, nav_trace, superseded >>

\* ProjectSearchView::move_focus_to_results (ToggleFocus) in a pane whose active
\* item is the view.
move_focus_to_results ==
    /\ views > 0
    /\ IF focus # "results_editor" /\ match_ranges # << >>
       THEN focus_results_editor
       ELSE UNCHANGED focus_vars
    /\ last_op' = "toggle_focus"
    /\ UNCHANGED << model_vars, view_vars, text_vars, semantic_enabled, index_tasks,
                    glob_vars, dir_entry, views, suppressed, peer, nav_trace, superseded >>

\* ------------------------------------------------------------ specifications
\* The view's configuration (mode, options, field texts, indexing state) and the
\* model's search lifecycle vary independently, so each specification composes
\* the handlers of one concern; all share Init and the definitions above.

\* The search lifecycle: searches are issued on the text and on the semantic
\* path and their tasks run.
NextSearch ==
    \/ BarSearch
    \/ toggle_semantic_search
    \/ \E n \in 0..MaxFiles : IndexReturn(n)
    \/ \E count \in 0..MaxFiles : ProgressRecv(count)
    \/ TaskStep

Spec == Init /\ [][NextSearch]_vars

\* ProjectSearch on its own: its two entry points are called directly, as
\* ProjectSearchView::search and ProjectSearchBar::search_in_new call them.
CallSearch ==
    /\ search_id < MaxSearches
    /\ search(Query("text", query_text, search_options, << >>, << >>))
    /\ last_op' = "search"
    /\ UNCHANGED << semantic, search_options, panels_with_errors, current_mode >>
    /\ UNCHANGED << text_vars, semantic_enabled, index_tasks, glob_vars, dir_entry, views, suppressed, peer, nav_trace >>

CallSemanticSearch ==
    /\ search_id < MaxSearches
    /\ semantic_search(query_text)
    /\ last_op' = "search"
    /\ UNCHANGED << semantic, search_options, panels_with_errors, current_mode >>
    /\ UNCHANGED << text_vars, semantic_enabled, index_tasks, glob_vars, dir_entry, views, suppressed, peer, nav_trace >>

NextModel ==
    \/ CallSearch
    \/ CallSemanticSearch
    \/ TaskStep

\* The tasks of the searches are polled until they finish: the foreground
\* executor runs every task that is ready.
FairSpec == Init /\ [][NextModel]_vars /\ WF_vars(TaskStep)

\* The state after a first text search, issued from the fresh view, has
\* delivered its one match and finished (a state Spec reaches).
FirstSearchDone ==
    /\ search_id = 1
    /\ active_query = Some(Query("text", << >>, {}, << >>, << >>))
    /\ match_ranges = << Match(1, 1, 1) >>
    /\ excerpts = << Match(1, 1, 1) >>
    /\ pending_search = None
    /\ tasks = {}
    /\ semantic = None
    /\ search_options = {}
    /\ panels_with_errors = {}
    /\ active_match_index = Some(0)
    /\ view_search_id = 1
    /\ current_mode = "Text"
    /\ cursor = 1
    /\ query_text = << >>
    /\ include_text = << >>
    /\ exclude_text = << >>
    /\ semantic_enabled \in BOOLEAN
    /\ index_tasks = 0
    /\ last_op = "stream_finish"
    /\ superseded = {}
    /\ glob_text = << >>
    /\ glob_result = None
    /\ peer = None
    /\ nav_trace = << >>
    /\ focus = "results_editor"
    /\ query_editor_was_focused = FALSE
    /\ views = 1
    /\ suppressed = FALSE
    /\ dir_entry = None

\* The fields are validated in a fresh view and in one that shows the results
\* of a search.
InitFields == Init \/ FirstSearchDone

\* Validation of the query, include and exclude fields.
NextFields ==
    \/ BarSearch
    \/ toggle_search_option("REGEX")
    \/ toggle_semantic_search
    \/ \E n \in 0..MaxFiles : IndexReturn(n)
    \/ \E text \in QueryTexts : EditQuery(text)
    \/ \E text \in GlobTexts : EditInclude(text)
    \/ \E text \in GlobTexts : EditExclude(text)

SpecFields == InitFields /\ [][NextFields]_vars

\* Search modes and the semantic indexing state.
NextMode ==
    \/ BarSearch
    \/ \E option \in SearchOptionNames : toggle_search_option(option)
    \/ toggle_filters
    \/ toggle_semantic_search
    \/ text_search_button
    \/ cycle_mode
    \/ \E n \in 0..MaxFiles : IndexReturn(n)
    \/ IndexFail
    \/ \E count \in 0..MaxFiles : ProgressRecv(count)

SpecMode == Init /\ [][NextMode]_vars

\* Navigation among the matches while searches are issued and their tasks run.
NextNav ==
    \/ CallSearch
    \/ CallSemanticSearch
    \/ TaskStep
    \/ \E direction \in Directions : select_match(direction)
    \/ \E c \in CursorPositions : MoveCursor(c)

SpecNav == Init /\ [][NextNav]_vars

\* Navigation while the chunks of text searches arrive.
NextChunks ==
    \/ CallSearch
    \/ TaskStep
    \/ \E direction \in Directions : select_match(direction)
    \/ \E c \in CursorPositions : MoveCursor(c)

SpecChunks == Init /\ [][NextChunks]_vars

\* The state after a text search, issued from the fresh view, has delivered n
\* matches of one document and finished.
SearchDone(n) ==
    /\ search_id = 1
    /\ active_query = Some(Query("text", << >>, {}, << >>, << >>))
    /\ match_ranges = StreamOf(<< [path |-> 1, n |-> n] >>, 1)
    /\ excerpts = match_ranges
    /\ pending_search = None
    /\ tasks = {}
    /\ semantic = None
    /\ search_options = {}
    /\ panels_with_errors = {}
    /\ active_match_index = Some(0)
    /\ view_search_id = 1
    /\ current_mode = "Text"
    /\ cursor = MatchStart(0)
    /\ query_text = << >>
    /\ include_text = << >>
    /\ exclude_text = << >>
    /\ semantic_enabled \in BOOLEAN
    /\ index_tasks = 0
    /\ last_op = "stream_finish"
    /\ superseded = {}
    /\ glob_text = << >>
    /\ glob_result = None
    /\ peer = None
    /\ nav_trace = << >>
    /\ focus = "results_editor"
    /\ query_editor_was_focused = FALSE
    /\ views = 1
    /\ suppressed = FALSE
    /\ dir_entry = None

InitSelect == \E n \in 1..MaxSelectMatches : SearchDone(n)

\* The positions the cursor can be put at among MaxSelectMatches matches.
SelectCursorPositions == 0..(MaxSelectMatches + 1)

\* Navigation among the matches of a finished search.
NextSelect ==
    \/ \E direction \in Directions : select_match(direction)
    \/ \E c \in SelectCursorPositions : MoveCursor(c)

SpecSelect == InitSelect /\ [][NextSelect]_vars

\* A search context is cloned once, at any point of the search lifecycle, and
\* searches go on in the one the model describes.
NextClone ==
    \/ CallSearch
    \/ CallSemanticSearch
    \/ TaskStep
    \/ clone_keep_source
    \/ clone_on_split

SpecClone == Init /\ [][NextClone]_vars

\* load_glob_set applied to every text of at most MaxLen characters.
\* The workspace before any project search has been deployed.
InitWorkspace ==
    /\ search_id = 0
    /\ active_query = None
    /\ match_ranges = << >>
    /\ excerpts = << >>
    /\ pending_search = None
    /\ tasks = {}
    /\ semantic = None
    /\ search_options = {}
    /\ panels_with_errors = {}
    /\ active_match_index = None
    /\ view_search_id = 0
    /\ current_mode = "Text"
    /\ cursor = 0
    /\ query_text = << >>
    /\ include_text = << >>
    /\ exclude_text = << >>
    /\ semantic_enabled = FALSE
    /\ index_tasks = 0
    /\ last_op = "new"
    /\ superseded = {}
    /\ glob_text = << >>
    /\ glob_result = None
    /\ peer = None
    /\ nav_trace = << >>
    /\ focus = "elsewhere"
    /\ query_editor_was_focused = FALSE
    /\ views = 0
    /\ suppressed = FALSE
    /\ dir_entry = None

\* The workspace's handlers that create, re-activate and focus search views,
\* with the searches of the active view and their tasks.
NextWorkspace ==
    \/ \E suggestion \in QueryTexts : deploy(suggestion)
    \/ search_in_new
    \/ move_focus_to_results
    \/ (views > 0 /\ BarSearch)
    \/ TaskStep

SpecWorkspace == InitWorkspace /\ [][NextWorkspace]_vars

\* Searches opened on an entry of the project panel, among the handlers that
\* change the view's fields and its focus.
NextDirectory ==
    \/ \E entry \in DirEntries : new_search_in_directory(entry)
    \/ \E suggestion \in QueryTexts : deploy(suggestion)
    \/ \E text \in GlobTexts : (views > 0 /\ EditExclude(text))
    \/ move_focus_to_results

\* The handler is called in a workspace without a search view and in one whose
\* view shows the results of a search.
InitDirectory == InitWorkspace \/ FirstSearchDone

SpecDirectory == InitDirectory /\ [][NextDirectory]_vars

GlobInputs == UNION {[1..k -> Chars] : k \in 0..MaxLen}

InitGlob ==
    /\ search_id = 0
    /\ active_query = None
    /\ match_ranges = << >>
    /\ excerpts = << >>
    /\ pending_search = None
    /\ tasks = {}
    /\ semantic = None
    /\ search_options = {}
    /\ panels_with_errors = {}
    /\ active_match_index = None
    /\ view_search_id = 0
    /\ current_mode = "Text"
    /\ cursor = 0
    /\ query_text = << >>
    /\ include_text = << >>
    /\ exclude_text = << >>
    /\ semantic_enabled = FALSE
    /\ index_tasks = 0
    /\ last_op = "new"
    /\ superseded = {}
    /\ glob_text \in GlobInputs
    /\ glob_result = None
    /\ peer = None
    /\ nav_trace = << >>
    /\ focus = "query_editor"
    /\ query_editor_was_focused = TRUE
    /\ views = 1
    /\ suppressed = FALSE
    /\ dir_entry = None

LoadGlobSet ==
    /\ glob_result = None
    /\ glob_result' = Some(load_glob_set(glob_text))
    /\ UNCHANGED << model_vars, view_vars, text_vars, semantic_enabled, index_tasks,
                    last_op, superseded, glob_text, peer, nav_trace,
                    focus_vars, views, suppressed, dir_entry >>

NextGlob == LoadGlobSet

SpecGlob == InitGlob /\ [][NextGlob]_vars

\* ===================================================================== claims

SeqRange(q) == {q[i] : i \in DOMAIN q}

\* The task of the generation issued last, while it awaits the engine.
CurrentAwaitsEngine == \E t \in tasks : t.id = search_id /\ t.pc = "engine"

\* C1: once generation G+1 has been issued, no match of generation G is
\* appended to match_ranges or to the excerpt container: in every step, all of
\* match_ranges and every excerpt the step adds belong to the generation that
\* is current after the step.
C1_StaleResultsNeverAppended ==
    [][ /\ \A m \in SeqRange(match_ranges') : m.gen = search_id'
        /\ \A e \in SeqRange(excerpts') \ SeqRange(excerpts) : e.gen = search_id'
      ]_vars

\* A search was superseded while in flight and the search issued after it has
\* delivered all its matches.
C1_Witness ==
    /\ superseded # {}
    /\ pending_search = None
    /\ match_ranges # << >>
    /\ last_op = "stream_finish"

\* C2 as stated: the step that issues a search leaves match_ranges empty, the
\* excerpt container empty and the active match index None, and no search is
\* pending over excerpts of an earlier generation.
C2_IssueClearsExcerpts ==
    [][ /\ search_id' # search_id =>
              /\ match_ranges' = << >>
              /\ excerpts' = << >>
              /\ active_match_index' = None
        /\ IsSome(pending_search') => \A e \in SeqRange(excerpts') : e.gen = search_id'
      ]_vars

\* C2 as amended: the step that issues a search empties match_ranges and sets
\* the active match index to None but leaves the excerpt container as it is;
\* excerpts of an earlier generation stay exactly as long as the task of the
\* current generation has not received its engine result.
C2_IssueClearsMatches ==
    [][ /\ search_id' # search_id =>
              /\ match_ranges' = << >>
              /\ active_match_index' = None
              /\ excerpts' = excerpts
        /\ (\E e \in SeqRange(excerpts') : e.gen # search_id') =>
              \E t \in tasks' : t.id = search_id' /\ t.pc \in {"engine", "failed"}
      ]_vars

\* A search has just been issued over the excerpts of the generation before.
C2_Witness ==
    /\ last_op = "search"
    /\ CurrentAwaitsEngine
    /\ excerpts # << >>
    /\ \A e \in SeqRange(excerpts) : e.gen < search_id
    /\ match_ranges = << >>
    /\ active_match_index = None

\* C3: when the engine call of the current generation has failed, the
\* orchestrator is Idle: pending_search is None.
C3_EngineFailureReturnsToIdle ==
    \A t \in tasks : (t.id = search_id /\ t.pc = "failed") => pending_search = None

\* C4: once the task of the current generation streams its engine result, then
\* unless another search is issued pending_search eventually is None, and it
\* stays None until a search is issued.
C4_StreamDrainsToIdle ==
    /\ \A g \in 1..MaxSearches :
          (search_id = g /\ \E t \in tasks : t.id = g /\ t.pc = "stream")
             ~> (pending_search = None \/ search_id # g)
    /\ [][ (pending_search = None /\ search_id' = search_id) => pending_search' = None ]_vars

\* A search has streamed all its matches and the orchestrator is Idle.
C4_Witness ==
    /\ last_op = "stream_finish"
    /\ pending_search = None
    /\ tasks = {}
    /\ match_ranges # << >>
    /\ match_ranges = excerpts

\* C5: a search request made while the semantic state exists with an
\* outstanding file count above 0 changes nothing of the model and spawns no
\* task (so no engine is called).
C5_SuppressedSearchIsNoOp ==
    [][ ( /\ last_op' = "search"
          /\ IsSome(semantic)
          /\ Unwrap(semantic).outstanding_file_count > 0 )
        => UNCHANGED << search_id, active_query, match_ranges, excerpts, pending_search, tasks >>
      ]_vars

\* A search was requested while indexing was outstanding, over the results of
\* an earlier search.
C5_Witness ==
    /\ last_op = "search"
    /\ IsSome(semantic)
    /\ Unwrap(semantic).outstanding_file_count > 0
    /\ match_ranges # << >>

\* C6: a search requested in Semantic mode while the semantic state is absent
\* or its outstanding count is 0 is dispatched to the semantic engine.
C6_SemanticModeUsesSemanticEngine ==
    [][ ( /\ last_op' = "search"
          /\ current_mode = "Semantic"
          /\ ~(IsSome(semantic) /\ Unwrap(semantic).outstanding_file_count > 0) )
        => /\ search_id' = search_id + 1
           /\ \E t \in tasks' : t.id = search_id' /\ t.kind = "semantic"
      ]_vars

\* C7: a search request with the REGEX option set and a query text that is no
\* regular expression leaves active_query as it is and puts Query in the
\* error set.
C7_InvalidRegexFlagsQuery ==
    [][ ( /\ last_op' = "search"
          /\ "REGEX" \in search_options
          /\ ~RegexCompiles(query_text) )
        => /\ active_query' = active_query
           /\ "Query" \in panels_with_errors'
      ]_vars

\* The fields of a search request fail validation: a pattern list does not
\* compile, or the text path is taken with REGEX set and a malformed expression.
ValidationFails(sem, opts) ==
    \/ ~load_glob_set(include_text).ok
    \/ ~load_glob_set(exclude_text).ok
    \/ (~IsSome(sem) /\ "REGEX" \in opts /\ ~RegexCompiles(query_text))

\* C8: a search request whose fields fail validation, on the text path or on
\* the semantic path, issues no search: search_id, active_query, match_ranges,
\* the excerpts and pending_search keep their values and no task is spawned.
C8_FailedValidationIssuesNothing ==
    [][ ( /\ last_op' \in {"search", "toggle_search_option"}
          /\ ValidationFails(semantic', search_options') )
        => UNCHANGED << search_id, active_query, match_ranges, excerpts, pending_search, tasks >>
      ]_vars

\* A request on the semantic path, with indexing complete and the results of
\* an earlier search in place, has failed validation.
C8_Witness ==
    /\ last_op = "search"
    /\ IsSome(semantic)
    /\ Unwrap(semantic).outstanding_file_count = 0
    /\ panels_with_errors # {}
    /\ IsSome(active_query)
    /\ match_ranges # << >>
    /\ excerpts # << >>

\* C9: after every build attempt Include is in the error set iff the include
\* text does not compile and Exclude is iff the exclude text does not compile.
C9_FieldsFlaggedIndependently ==
    [][ ( /\ last_op' = "search"
          /\ ~(IsSome(semantic) /\ Unwrap(semantic).outstanding_file_count > 0) )
        => /\ ("Include" \in panels_with_errors') <=> ~load_glob_set(include_text).ok
           /\ ("Exclude" \in panels_with_errors') <=> ~load_glob_set(exclude_text).ok
      ]_vars

\* The index of the first character of a segment that remains after trimming:
\* a character that is neither a comma nor a blank, preceded within its segment
\* by blanks only.
SegmentStarts(text) ==
    {i \in 1..Len(text) :
        /\ text[i] \notin {",", " "}
        /\ \A j \in 1..(i - 1) :
              (\A k \in j..(i - 1) : text[k] # ",") => text[j] = " "}

\* The index of the last character that is no blank in the segment starting at i.
SegmentEnd(text, i) ==
    CHOOSE e \in i..Len(text) :
        /\ text[e] # " "
        /\ \A k \in i..e : text[k] # ","
        /\ \A k \in (e + 1)..Len(text) :
              (\A l \in e..k : text[l] # ",") => text[k] = " "

\* The k-th remaining segment of the text, in input order.
NthSegment(text, k) ==
    LET i == CHOOSE j \in SegmentStarts(text) :
                 Cardinality({h \in SegmentStarts(text) : h < j}) = k - 1
    IN SubSeq(text, i, SegmentEnd(text, i))

\* C10: load_glob_set succeeds iff every segment that remains after splitting
\* on commas, trimming and dropping the empty ones compiles; it then returns
\* one matcher per remaining segment, in input order, and returns no matcher
\* when it fails.
C10_GlobSetAllOrNothing ==
    IsSome(glob_result) =>
        LET r == Unwrap(glob_result)
            n == Cardinality(SegmentStarts(glob_text))
        IN /\ r.ok <=> \A k \in 1..n : GlobNew(NthSegment(glob_text, k)).ok
           /\ r.ok => /\ Len(r.matchers) = n
                      /\ \A k \in 1..n : r.matchers[k] = NthSegment(glob_text, k)
           /\ ~r.ok => r.matchers = << >>

\* A list whose first pattern compiles and whose second does not has failed.
C10_Witness ==
    /\ glob_text = << "a", ",", " ", "[" >>
    /\ IsSome(glob_result)
    /\ ~Unwrap(glob_result).ok

\* C11: every issued search records its query as active: after the step that
\* issues a search, active_query holds a query with the text of the request,
\* and it is a semantic query exactly when the semantic engine was called.
C11_IssuedQueryIsActive ==
    [][ search_id' # search_id =>
          /\ IsSome(active_query')
          /\ Unwrap(active_query').text = query_text
          /\ \A t \in tasks' : t.id = search_id' =>
                ((t.kind = "semantic") <=> (Unwrap(active_query').kind = "semantic"))
      ]_vars

\* The steps that call ProjectSearch::search or semantic_search.
IssuesSearch == \E t \in tasks' \ tasks : t.pc = "engine"

\* C12: search_id never decreases: a step that calls search or semantic_search
\* increases it by exactly 1 and every other step (a chunk arriving, the stream
\* ending, the engine failing, navigation, a cursor move) leaves it unchanged.
C12_GenerationCountsSearches ==
    [][ /\ search_id' >= search_id
        /\ IF IssuesSearch THEN search_id' = search_id + 1 ELSE search_id' = search_id
      ]_vars

\* MaxSearches searches were issued, the last one has finished, and the user
\* has navigated since.
C12_Witness ==
    /\ search_id = MaxSearches
    /\ pending_search = None
    /\ match_ranges # << >>
    /\ last_op = "select_next"

\* C13: the active match index is None iff match_ranges is empty.
C13_IndexNoneIffNoMatches ==
    (active_match_index = None) <=> (match_ranges = << >>)

\* A search has just been issued from a view that showed matches: the ranges
\* are gone and the index, which was Some, is None.
C13_Witness ==
    /\ last_op = "search"
    /\ search_id > 1
    /\ excerpts # << >>
    /\ match_ranges = << >>
    /\ active_match_index = None

\* (document path, position) of a precedes that of b.
Precedes(a, b) == a.path < b.path \/ (a.path = b.path /\ a.pos < b.pos)

\* C14: match_ranges is ordered by document path, then position, in every
\* reachable state (so ranges are appended in that order).
C14_MatchesOrderedByPath ==
    \A i, j \in 1..Len(match_ranges) : i < j => Precedes(match_ranges[i], match_ranges[j])

\* What can be seen of the peer: its generation, active query, match ranges and
\* the content of its excerpt container.
PeerState ==
    LET p == Unwrap(peer) IN
    << p.model.search_id, p.model.active_query, p.model.match_ranges, PeerExcerpts(p) >>

\* C15: the step that clones gives the copy the source's active_query,
\* match_ranges and search_id and an excerpt container of its own; from then on
\* no step taken on one of the two (a search issued, ranges arriving, the
\* search finishing or failing) changes the other's generation, active query,
\* match ranges or excerpt container.
C15_CloneIsIndependent ==
    [][ /\ (peer = None /\ IsSome(peer')) =>
              LET p == Unwrap(peer') IN
              /\ p.model.search_id = search_id' /\ search_id' = search_id
              /\ p.model.active_query = active_query' /\ active_query' = active_query
              /\ p.model.match_ranges = match_ranges' /\ match_ranges' = match_ranges
              /\ p.model.excerpts_handle # p.other_handle
        /\ (IsSome(peer) /\ IsSome(peer')) =>
              PeerState' = PeerState
      ]_vars

\* A copy was taken while the source showed matches, and the source has since
\* delivered the matches of a later search: the copy still holds the earlier
\* ones.
C15_Witness ==
    /\ IsSome(peer)
    /\ Unwrap(peer).role = "copy"
    /\ Unwrap(peer).model.match_ranges # << >>
    /\ search_id > Unwrap(peer).model.search_id
    /\ match_ranges # << >>
    /\ excerpts # Unwrap(peer).model.excerpts
    /\ last_op = "stream_finish"


IsPrefix(p, q) == Len(p) <= Len(q) /\ SubSeq(q, 1, Len(p)) = p

\* C16: within a generation match_ranges only grows by appending: in every
\* step that issues no search, match_ranges before is a prefix of match_ranges
\* after.
C16_AppendOnlyWithinGeneration ==
    [][ search_id' = search_id => IsPrefix(match_ranges, match_ranges') ]_vars

\* Partial results are visible: a search is pending, some of its matches are in
\* match_ranges and its stream has more to deliver.
C16_Witness ==
    /\ IsSome(pending_search)
    /\ match_ranges # << >>
    /\ \E t \in tasks : t.id = search_id /\ t.pc = "stream" /\ t.todo # << >>

\* The indices of the n ranges that start at or after the cursor.
AtOrAfterCursor(n) == {i \in 0..(n - 1) : MatchStart(i) >= cursor}

C18_SelectMatchWraps ==
    [][ IsSome(active_match_index) =>
          LET n == Len(match_ranges)
              i == Unwrap(active_match_index) IN
          /\ last_op' = "select_next" => active_match_index' = Some((i + 1) % n)
          /\ last_op' = "select_prev" => active_match_index' = Some((i - 1 + n) % n)
      ]_vars

\* Next from the last of at least three matches has wrapped to the first.
C18_Witness ==
    /\ last_op = "select_next"
    /\ Len(match_ranges) >= 3
    /\ nav_trace[1].index = Some(Len(match_ranges) - 1)
    /\ active_match_index = Some(0)

\* C19: select_match(Next) directly followed by select_match(Prev) restores
\* the active index, and so does Prev directly followed by Next.
C19_NextPrevInverse ==
    [][ ( /\ last_op \in {"select_next", "select_prev"}
          /\ last_op' \in {"select_next", "select_prev"}
          /\ last_op' # last_op
          /\ nav_trace # << >>
          /\ IsSome(nav_trace[1].index) )
        => active_match_index' = nav_trace[1].index
      ]_vars

\* Among at least three matches, Next from the last match and then Prev has
\* come back to the last match.
C19_Witness ==
    /\ last_op = "select_prev"
    /\ Len(match_ranges) >= 3
    /\ Len(nav_trace) = 2
    /\ nav_trace[2] = [direction |-> "Next", index |-> Some(Len(match_ranges) - 1)]
    /\ nav_trace[1] = [direction |-> "Prev", index |-> Some(0)]
    /\ active_match_index = Some(Len(match_ranges) - 1)

\* C20: without matches (active match index None) select_match changes neither
\* the active match index, the selection, match_ranges nor search_id.
C20_SelectMatchNoOpWithoutMatches ==
    [][ ( /\ last_op' \in {"select_next", "select_prev"}
          /\ active_match_index = None )
        => UNCHANGED << active_match_index, cursor, match_ranges, search_id >>
      ]_vars

\* select_match was called while a search was pending without any match yet.
C20_Witness ==
    /\ last_op \in {"select_next", "select_prev"}
    /\ nav_trace # << >>
    /\ nav_trace[1].index = None
    /\ active_match_index = None
    /\ match_ranges = << >>
    /\ IsSome(pending_search)

\* C21: when the first results of a generation arrive the active match index
\* becomes 0, and each select_match(Next) goes from index i to i + 1, and from
\* the last index back to 0, so that n of them in a row visit 1, ..., n - 1 in
\* order and return to 0.
C21_FirstMatchThenTour ==
    [][ /\ (match_ranges = << >> /\ match_ranges' # << >>) => active_match_index' = Some(0)
        /\ (last_op' = "select_next" /\ IsSome(active_match_index)) =>
              LET i == Unwrap(active_match_index) IN
              active_match_index' = Some(IF i + 1 < Len(match_ranges) THEN i + 1 ELSE 0)
      ]_vars

\* A search that followed one whose matches the user had navigated has
\* delivered its matches, and from index 0 two select_match(Next) in a row have
\* gone to 1 and come back to 0.
C21_Witness ==
    /\ search_id > 1
    /\ pending_search = None
    /\ Len(match_ranges) = 2
    /\ last_op = "select_next"
    /\ Len(nav_trace) = 2
    /\ nav_trace[2] = [direction |-> "Next", index |-> Some(0)]
    /\ nav_trace[1] = [direction |-> "Next", index |-> Some(1)]
    /\ active_match_index = Some(0)

\* The steps of the search tasks.
TaskOps == {"engine_ok", "engine_failed", "stream_produce", "stream_consume", "stream_finish"}

\* C22: a suppressed request is not queued: while a request stands suppressed,
\* no step but a new search request (or a step of a task of a search issued
\* before) changes search_id, match_ranges or pending_search or spawns a task,
\* in particular not the progress step that takes the outstanding count to 0;
\* and a search is only ever issued by a search request.
C22_SuppressedSearchNotQueued ==
    [][ /\ (suppressed /\ last_op' \notin ({"search"} \cup TaskOps)) =>
              UNCHANGED << search_id, match_ranges, pending_search, tasks >>
        /\ IssuesSearch => last_op' = "search"
      ]_vars

\* A request was suppressed, the outstanding count has since reached 0, and
\* no search has started.
C22_Witness ==
    /\ suppressed
    /\ last_op = "progress"
    /\ IsSome(semantic)
    /\ Unwrap(semantic).outstanding_file_count = 0
    /\ search_id = 0
    /\ pending_search = None
    /\ tasks = {}

\* The handlers of ProjectSearchBar that change the mode or the semantic state.
ModeOps == {"cycle_mode", "toggle_search_option", "toggle_filters", "text_search_button",
            "toggle_semantic_search"}

\* C23: after any mode handler that leaves the mode other than Semantic, and
\* after any step that issues a text or regex query, the semantic indexing
\* state is None.
C23_TrackerDroppedOutsideSemantic ==
    [][ /\ (last_op' \in ModeOps /\ current_mode' # "Semantic") => semantic' = None
        /\ (\E t \in tasks' \ tasks : t.pc = "engine" /\ t.kind = "text") => semantic' = None
      ]_vars

\* C24: a progress step keeps the semantic state, with its file_count, also
\* when it yields 0; the state stays until a mode handler runs (or a new index
\* request returns); and a search requested with the state present and the
\* outstanding count 0 is sent to the semantic engine.
C24_TrackerKeptAtZero ==
    [][ /\ (IsSome(semantic) /\ last_op' \notin (ModeOps \cup {"index_return"})) =>
              /\ IsSome(semantic')
              /\ Unwrap(semantic').file_count = Unwrap(semantic).file_count
              /\ last_op' # "progress" => semantic' = semantic
        /\ ( /\ last_op' = "search"
             /\ IsSome(semantic)
             /\ Unwrap(semantic).outstanding_file_count = 0 ) =>
              /\ search_id' = search_id + 1
              /\ \E t \in tasks' : t.id = search_id' /\ t.kind = "semantic" /\ t.pc = "engine"
      ]_vars

\* Indexing of a project with files has gone down to 0 outstanding, and the
\* search requested then is with the semantic engine.
C24_Witness ==
    /\ last_op = "search"
    /\ IsSome(semantic)
    /\ Unwrap(semantic).file_count > 0
    /\ Unwrap(semantic).outstanding_file_count = 0
    /\ Unwrap(semantic).progress_task.received = Some(0)
    /\ \E t \in tasks : t.id = search_id /\ t.kind = "semantic" /\ t.pc = "engine"

\* C25: while the semantic state exists its outstanding_file_count is the
\* value its progress stream yielded last, or file_count if it has yielded
\* none yet, and no step changes the file_count of a state once created.
C25_OutstandingIsLastYield ==
    [][ /\ IsSome(semantic') =>
              LET st == Unwrap(semantic') IN
              st.outstanding_file_count =
                  IF IsSome(st.progress_task.received)
                  THEN Unwrap(st.progress_task.received)
                  ELSE st.file_count
        /\ (IsSome(semantic) /\ IsSome(semantic') /\ last_op' # "index_return") =>
              Unwrap(semantic').file_count = Unwrap(semantic).file_count
      ]_vars

\* The progress stream of a project with files has yielded a value other than
\* the file count.
C25_Witness ==
    /\ last_op = "progress"
    /\ IsSome(semantic)
    /\ Unwrap(semantic).file_count > 0
    /\ IsSome(Unwrap(semantic).progress_task.received)
    /\ Unwrap(semantic).outstanding_file_count # Unwrap(semantic).file_count

\* C26: the search a step issues matches the mode the view is in after the
\* step: in Text mode a plain-text query goes to the text engine, in Regex
\* mode a regex query does, and in Semantic mode the semantic engine is called.
C26_QueryKindMatchesMode ==
    [][ \A t \in tasks' \ tasks : t.pc = "engine" =>
          CASE current_mode' = "Text" ->
                   t.kind = "text" /\ IsSome(active_query') /\ Unwrap(active_query').kind = "text"
            [] current_mode' = "Regex" ->
                   t.kind = "text" /\ IsSome(active_query') /\ Unwrap(active_query').kind = "regex"
            [] OTHER -> t.kind = "semantic"
      ]_vars

\* C27: when the first results of a newly issued search arrive, the first
\* match is selected (the cursor is on it and it is the active match) and a
\* focus that was on the query editor moves to the results editor; while a
\* search has no matches its task leaves the focus where it is.
C27_FirstResultsSelectFirstMatch ==
    [][ /\ (last_op' = "stream_consume" /\ match_ranges = << >> /\ match_ranges' # << >>) =>
               /\ cursor' = MatchStart(0)
               /\ active_match_index' = Some(0)
               /\ (focus = "query_editor" => focus' = "results_editor")
        /\ (last_op' \in TaskOps /\ match_ranges' = << >>) => UNCHANGED focus_vars
      ]_vars

\* C28: ToggleFocus moves the focus to the results editor exactly when the
\* model has matches; without matches the focus stays where it is (on the
\* query editor), and a focused results editor stays focused.
C28_ToggleFocusNeedsMatches ==
    [][ last_op' = "toggle_focus" =>
            /\ focus' = IF match_ranges # << >> THEN "results_editor" ELSE focus
            /\ (focus = "results_editor" => focus' = "results_editor")
            /\ UNCHANGED << model_vars, views >>
      ]_vars

\* ToggleFocus has been handled in a view with matches, after the query editor
\* had been given the focus again: the results editor has the focus.
C28_Witness ==
    /\ last_op = "toggle_focus"
    /\ match_ranges # << >>
    /\ focus = "results_editor"
    /\ ~query_editor_was_focused
    /\ query_text # << >>

\* C29: deploy in a workspace that has a project search view creates no view
\* and leaves the view's match_ranges, excerpts, active_query and search_id
\* unchanged; the query editor has the focus afterwards; a view is created only
\* when the workspace has none.
C29_DeployReactivatesExisting ==
    [][ last_op' = "deploy" =>
            /\ focus' = "query_editor"
            /\ IF views > 0
               THEN /\ views' = views
                    /\ UNCHANGED << match_ranges, excerpts, active_query, search_id >>
               ELSE views' = 1
      ]_vars

\* deploy has re-activated a view that shows matches.
C29_Witness ==
    /\ last_op = "deploy"
    /\ views > 0
    /\ match_ranges # << >>
    /\ focus = "query_editor"

\* C30 as stated: new_search_in_directory does nothing for an entry that is
\* not a directory, and for every directory it adds a view whose include filter
\* is the directory's path joined with "**", whose exclude filter and result
\* set are empty and whose query editor has the focus.
C30_DirectoryEntryAddsView ==
    [][ last_op' = "new_search_in_directory" =>
            LET entry == Unwrap(dir_entry') IN
            IF ~entry.is_dir
            THEN UNCHANGED << model_vars, view_vars, text_vars, focus_vars, views >>
            ELSE /\ views' = views + 1
                 /\ include_text' = PathJoin(entry.path, << "*", "*" >>)
                 /\ exclude_text' = << >>
                 /\ match_ranges' = << >> /\ excerpts' = << >>
                 /\ focus' = "query_editor"
      ]_vars

\* C30 (amended): new_search_in_directory does nothing for an entry that is
\* not a directory or whose path is not valid Unicode; for a directory with a
\* Unicode path it adds a view whose include filter is the path joined with
\* "**", whose exclude filter and result set are empty and whose query editor
\* has the focus.
C30_UnicodeDirectoryAddsView ==
    [][ last_op' = "new_search_in_directory" =>
            LET entry == Unwrap(dir_entry') IN
            IF ~entry.is_dir \/ ~entry.unicode
            THEN UNCHANGED << model_vars, view_vars, text_vars, focus_vars, views >>
            ELSE /\ views' = views + 1
                 /\ include_text' = PathJoin(entry.path, << "*", "*" >>)
                 /\ exclude_text' = << >>
                 /\ match_ranges' = << >> /\ excerpts' = << >>
                 /\ focus' = "query_editor"
      ]_vars

\* A search has been opened on the directory "a" in a workspace that had a
\* view already.
C30_Witness ==
    /\ last_op = "new_search_in_directory"
    /\ IsSome(dir_entry) /\ Unwrap(dir_entry).is_dir /\ Unwrap(dir_entry).unicode
    /\ views = 2
    /\ include_text = << "a", "/", "*", "*" >>
    /\ exclude_text = << >>
    /\ focus = "query_editor"

\* The handlers that turn the semantic mode off without asking for an index.
OffOps == {"text_search_button", "toggle_search_option", "toggle_filters"}

\* C31: once the semantic mode has been turned off, an indexing request that
\* was in flight then does not create the indexing state when it returns: the
\* state stays absent in the step that follows the handler.
C31_InFlightIndexDoesNotRecreate ==
    [][ (last_op \in OffOps /\ ~IsSome(semantic) /\ last_op' = "index_return")
            => ~IsSome(semantic')
      ]_vars

\* The task of the latest search is waiting for the engine or streaming.
CurrentInFlight == \E t \in tasks : t.id = search_id /\ t.pc \in {"engine", "stream"}

\* C32: while the latest search is in flight pending_search holds its task, and
\* the handle is only ever replaced by the next search or taken by the latest
\* task itself at the end of its stream: no other task clears it.
C32_NewerHandleNotCleared ==
    [][ /\ CurrentInFlight' => pending_search' = Some(search_id')
        /\ (IsSome(pending_search) /\ pending_search' # pending_search) =>
              \/ search_id' = search_id + 1 /\ pending_search' = Some(search_id')
              \/ /\ pending_search' = None
                 /\ pending_search = Some(search_id)
                 /\ \E t \in tasks : /\ t.id = search_id /\ t.pc = "stream"
                                     /\ t.todo = << >> /\ t.ready = << >>
      ]_vars

\* A second search has superseded the first in flight and its own task is
\* streaming, its handle in place.
C32_Witness ==
    /\ search_id = 2
    /\ 1 \in superseded
    /\ \E t \in tasks : t.id = 2 /\ t.pc = "stream" /\ t.ready # << >>
    /\ pending_search = Some(2)
    /\ last_op = "stream_produce"

\* C33: whenever the view holds an active match index Some(i), both i and the
\* index select_match would go to, in either direction, are smaller than the
\* length of the model's match_ranges.
C33_SelectMatchIndicesInBounds ==
    IsSome(active_match_index) =>
        /\ Unwrap(active_match_index) < Len(match_ranges)
        /\ \A direction \in Directions :
              MatchIndexForDirection(Len(match_ranges), Unwrap(active_match_index),
                                     direction) \in 0..(Len(match_ranges) - 1)

\* select_match has run while the chunks of a second search were arriving.
C33_Witness ==
    /\ last_op \in {"select_next", "select_prev"}
    /\ search_id = 2
    /\ \E t \in tasks : t.id = 2 /\ t.pc = "stream" /\ t.todo # << >>
    /\ IsSome(active_match_index)
    /\ nav_trace # << >>

\* C34: every step that issues a search leaves the field-error set empty.
C34_IssuedSearchClearsErrors ==
    [][ IssuesSearch => panels_with_errors' = {} ]_vars

\* C35: when no indexing request is in flight, a view in Semantic mode has its
\* semantic indexing state.
C35_SemanticModeHasState ==
    (current_mode = "Semantic" /\ index_tasks = 0) => IsSome(semantic)

\* C39: the outstanding count of the indexing state never exceeds its file
\* count.
C39_OutstandingAtMostFileCount ==
    IsSome(semantic) =>
        Unwrap(semantic).outstanding_file_count <= Unwrap(semantic).file_count

\* C36: when the task of a search finishes, match_ranges holds exactly the
\* ranges its excerpt stream emitted (the excerpts inserted for this
\* generation), in the order of emission and each once.
C36_RangesExactlyOnce ==
    [][ last_op' = "stream_finish" =>
            /\ match_ranges' = excerpts'
            /\ \A i \in DOMAIN match_ranges' : match_ranges'[i].gen = search_id'
            /\ \A i, j \in DOMAIN match_ranges' :
                  i # j => match_ranges'[i] # match_ranges'[j]
      ]_vars

\* A search that was never superseded has finished with two ranges.
C36_Witness ==
    /\ last_op = "stream_finish"
    /\ superseded = {}
    /\ Len(match_ranges) = MaxMatches
    /\ pending_search = None

\* C37: a chunk that arrives when the model already has matches (a further
\* chunk of the generation) leaves the selection where it is, and with the
\* cursor at the start of the buffer or on one of the matches the active match
\* index stays what it was; in particular a selection still on the first match
\* is not made again.
C37_FirstMatchSelectedOnce ==
    [][ (last_op' = "stream_consume" /\ match_ranges # << >>) =>
            /\ cursor' = cursor
            /\ cursor <= Len(match_ranges) => active_match_index' = active_match_index
      ]_vars

\* A further chunk of the first search has arrived after select_match had run
\* on the matches of the chunk before; the first match is still the selected
\* and the active one.
C37_Witness ==
    /\ last_op = "stream_consume"
    /\ search_id = 1
    /\ nav_trace # << >>
    /\ Len(match_ranges) > 1
    /\ cursor = MatchStart(0)
    /\ active_match_index = Some(0)

\* C38: a copy made while the source's search is in flight has no pending
\* search, the matches the source has accumulated so far and the source's
\* search_id; the steps of the source's task leave the copy's match_ranges and
\* its empty pending_search alone, and the copy's match_ranges change only when
\* a search is issued on the copy.
C38_CloneInFlightStartsIdle ==
    [][ /\ (peer = None /\ IsSome(peer') /\ CurrentInFlight) =>
              LET p == Unwrap(peer') IN
              IF p.role = "copy"
              THEN /\ p.model.pending_search = None
                   /\ p.model.match_ranges = match_ranges
                   /\ p.model.search_id = search_id
              ELSE /\ pending_search' = None
                   /\ match_ranges' = match_ranges
                   /\ search_id' = search_id
        /\ (IsSome(peer) /\ Unwrap(peer).role = "copy" /\ last_op' \in TaskOps) =>
              /\ Unwrap(peer').model.match_ranges = Unwrap(peer).model.match_ranges
              /\ Unwrap(peer').model.pending_search = None
        /\ (IsSome(peer) /\ Unwrap(peer).role = "source"
               /\ search_id = Unwrap(peer).model.search_id /\ search_id' = search_id) =>
              match_ranges' = match_ranges /\ pending_search' = None
      ]_vars

\* A copy was taken while the source's search was streaming its first match;
\* the source has received a further match since and the copy has not.
C38_Witness ==
    /\ IsSome(peer)
    /\ Unwrap(peer).role = "copy"
    /\ Unwrap(peer).model.pending_search = None
    /\ Unwrap(peer).model.search_id = search_id
    /\ Unwrap(peer).model.match_ranges # << >>
    /\ Len(Unwrap(peer).model.match_ranges) < Len(match_ranges)
    /\ last_op = "stream_consume"

\* The order of the modes the claim gives: with semantic indexing enabled and
\* without it.
CycleOrder(enabled) ==
    IF enabled THEN << "Text", "Semantic", "Regex" >> ELSE << "Text", "Regex" >>

\* The mode that follows mode m in the order q (the first follows the last).
FollowsIn(q, m) ==
    LET i == CHOOSE k \in DOMAIN q : q[k] = m IN q[(i % Len(q)) + 1]

\* C40: cycle_mode takes the mode to the one that follows it in the order
\* Text, Semantic, Regex when semantic indexing is enabled and Text, Regex when
\* it is not, so that 3 resp. 2 calls in a row lead from Text back to Text, and
\* it never enters Semantic mode while semantic indexing is disabled.
C40_CycleModeOrder ==
    [][ last_op' = "cycle_mode" =>
            /\ \E k \in DOMAIN CycleOrder(semantic_enabled) :
                  CycleOrder(semantic_enabled)[k] = current_mode
            /\ current_mode' = FollowsIn(CycleOrder(semantic_enabled), current_mode)
            /\ ~semantic_enabled => current_mode' # "Semantic"
      ]_vars

\* cycle_mode has brought a view with semantic indexing enabled back to Text.
C40_Witness ==
    /\ last_op = "cycle_mode"
    /\ semantic_enabled
    /\ current_mode = "Text"

====
